---- MODULE Spec2Model ----
(***************************************************************************)
(* Model of internal/patchpkg/search.go (package patchpkg of devbox): the  *)
(* reference-location helpers searchFile, envValues/searchEnv, searchGlobs,*)
(* globEscape and the pattern reRemovedRefs.                               *)
(*                                                                         *)
(* A string is a sequence.  File names, glob patterns, regular-expression  *)
(* inputs and environment entries are sequences of one-character strings;  *)
(* the input of globEscape is a sequence of byte values 0..255, because    *)
(* its behaviour depends on the UTF-8 encoding.                            *)
(*                                                                         *)
(* Each component has its own specification (SpecGlob, SpecFile, SpecEnv,  *)
(* SpecEscape, SpecRefs); the variables of the other components stay at    *)
(* their idle values.                                                      *)
(***************************************************************************)
EXTENDS Integers, Sequences, FiniteSets, TLC

VARIABLES
    \* ---- searchGlobs ----
    patterns,   \* the []string argument of searchGlobs
    fsys,       \* the names present in the directory the patterns are matched in
    seen,       \* the map `seen` captured by the returned closure (its true keys)
    gpc,        \* position of the iterator: "ready", "outer", "inner", "done"
    pi,         \* index of the current pattern in the outer range loop
    glob,       \* result of filepath.Glob for the current pattern
    gi,         \* index of the current match in the inner range loop
    out,        \* paths passed to yield during the current iteration
    globCalls,  \* indices of the patterns filepath.Glob was called for, this iteration
    yieldFrom,  \* index of the pattern that produced the last yielded path
    stopped,    \* yield returned false during the current iteration
    iterNo,     \* how many times the returned sequence has been iterated
    \* ---- searchFile ----
    file,       \* the file at `path`: [exists, pre, win, readErr]
    re,         \* the compiled regular expression
    fpc,        \* position in searchFile: "start", "opened", "read", "returned"
    handle,     \* state of the handle f: "none", "open", "closed"
    data,       \* bytes returned by io.ReadAll: [pre, win]
    matches,    \* the returned []fileSlice
    ferr,       \* the returned error is non-nil
    \* ---- envValues / searchEnv ----
    environ,    \* the live process environment (os.Environ())
    once,       \* state of the sync.OnceValue: "new", "running", "done"
    onceResult, \* the value cached by the sync.OnceValue
    computed,   \* how many times the function given to OnceValue has run
    snapEnv,    \* the live environment at the time the function read it
    epc,        \* per caller: "idle", "calling", "compute", "wait", "search", "returned"
    evals,      \* per caller: the list of values envValues() returned to it
    eret,       \* per caller: the string searchEnv returned
    ere,        \* per caller: the regular expression given to searchEnv
    setenvs,    \* number of changes made to the live environment
    ecalls,     \* number of searchEnv calls made so far
    \* ---- globEscape ----
    escIn,      \* the argument s, a sequence of bytes
    escOut,     \* the returned string, a sequence of bytes
    escPc,      \* "start", "fast" (returned by the fast path), "slow"
    \* ---- reRemovedRefs ----
    refIn,      \* the text searched
    refLoc,     \* result of reRemovedRefs.FindIndex: <<>> or <<start, end>>
    refPc       \* "start", "done"

globVars == <<patterns, fsys, seen, gpc, pi, glob, gi, out, globCalls, yieldFrom, stopped, iterNo>>
fileVars == <<file, re, fpc, handle, data, matches, ferr>>
envVars == <<environ, once, onceResult, computed, snapEnv, epc, evals, eret, ere, setenvs, ecalls>>
escVars == <<escIn, escOut, escPc>>
refVars == <<refIn, refLoc, refPc>>
vars == <<globVars, fileVars, envVars, escVars, refVars>>

nonGlobVars == <<fileVars, envVars, escVars, refVars>>
nonFileVars == <<globVars, envVars, escVars, refVars>>
nonEnvVars == <<globVars, fileVars, escVars, refVars>>
nonEscVars == <<globVars, fileVars, envVars, refVars>>
nonRefVars == <<globVars, fileVars, envVars, escVars>>

----------------------------------------------------------------------------
(* Sequences of bounded length, and helpers on sequences.                  *)

SeqsUpTo(S, n) == UNION {[1..k -> S] : k \in 0..n}

Min(a, b) == IF a < b THEN a ELSE b

\* Byte value of the characters that occur in file names.
Ord(c) ==
    CASE c = "*" -> 42
      [] c = "/" -> 47
      [] c = "[" -> 91
      [] c = "a" -> 97
      [] c = "b" -> 98

\* s < t in the byte-wise order Go uses for strings.
RECURSIVE StrLess(_, _)
StrLess(s, t) ==
    IF t = <<>> THEN FALSE
    ELSE IF s = <<>> THEN TRUE
    ELSE IF Ord(Head(s)) # Ord(Head(t)) THEN Ord(Head(s)) < Ord(Head(t))
    ELSE StrLess(Tail(s), Tail(t))

\* The elements of a finite set of strings in increasing order.
RECURSIVE SortStrings(_)
SortStrings(S) ==
    IF S = {} THEN <<>>
    ELSE LET m == CHOOSE x \in S : \A y \in S \ {x} : StrLess(x, y)
         IN  <<m>> \o SortStrings(S \ {m})

RECURSIVE Concat(_)
Concat(ss) == IF ss = <<>> THEN <<>> ELSE Head(ss) \o Concat(Tail(ss))

----------------------------------------------------------------------------
(* searchGlobs, search.go:87-110.                                          *)

\* Bounds of the searchGlobs model.
MaxPatterns == 3
MaxIters == 2

Names == { <<"a", "b">>, <<"a", "a">>, <<"b">> }

PatternSet == { <<"a", "*">>, <<"*", "b">>, <<"a", "b">>, <<"[", "a">> }

\* path/filepath: hasMeta, the pattern holds a glob metacharacter.
hasMeta(pattern) == \E i \in 1..Len(pattern) : pattern[i] \in {"*", "?", "[", "\\"}

\* path/filepath: Match reports ErrBadPattern for a character class that is
\* never closed and for a trailing backslash.
BadPattern(pattern) ==
    \/ \E i \in 1..Len(pattern) :
          pattern[i] = "[" /\ ~\E j \in (i+2)..Len(pattern) : pattern[j] = "]"
    \/ pattern # <<>> /\ pattern[Len(pattern)] = "\\"

\* path/filepath: Match for patterns made of literals, '*' and '?'.
RECURSIVE MatchFrom(_, _, _, _)
MatchFrom(pattern, i, name, j) ==
    IF i > Len(pattern) THEN j > Len(name)
    ELSE IF pattern[i] = "*"
         THEN \/ MatchFrom(pattern, i + 1, name, j)
              \/ j <= Len(name) /\ name[j] # "/" /\ MatchFrom(pattern, i, name, j + 1)
    ELSE IF pattern[i] = "?"
         THEN j <= Len(name) /\ name[j] # "/" /\ MatchFrom(pattern, i + 1, name, j + 1)
    ELSE j <= Len(name) /\ name[j] = pattern[i] /\ MatchFrom(pattern, i + 1, name, j + 1)

Match(pattern, name) == MatchFrom(pattern, 1, name, 1)

\* filepath.Glob(pattern) in a directory holding the names fs: the pattern is
\* checked first; a pattern without metacharacters is looked up with Lstat; the
\* matching names come back in sorted order.
Glob(pattern, fs) ==
    IF BadPattern(pattern) THEN [err |-> TRUE, matches |-> <<>>]
    ELSE IF ~hasMeta(pattern)
         THEN [err |-> FALSE, matches |-> IF pattern \in fs THEN <<pattern>> ELSE <<>>]
    ELSE [err |-> FALSE, matches |-> SortStrings({n \in fs : Match(pattern, n)})]

\* searchGlobs(patterns) has returned the closure; `seen` was made by the call.
GlobInit ==
    /\ patterns \in SeqsUpTo(PatternSet, MaxPatterns)
    /\ fsys \in SUBSET Names
    /\ seen = {}
    /\ gpc = "ready"
    /\ pi = 0
    /\ glob = <<>>
    /\ gi = 0
    /\ out = <<>>
    /\ globCalls = <<>>
    /\ yieldFrom = 0
    /\ stopped = FALSE
    /\ iterNo = 0

GlobIdle ==
    /\ patterns = <<>>
    /\ fsys = {}
    /\ seen = {}
    /\ gpc = "ready"
    /\ pi = 0
    /\ glob = <<>>
    /\ gi = 0
    /\ out = <<>>
    /\ globCalls = <<>>
    /\ yieldFrom = 0
    /\ stopped = FALSE
    /\ iterNo = 0

\* The consumer ranges over the returned sequence: the closure of line 92 runs.
\* The map `seen` was made on line 91, outside the closure, so the iteration
\* starts with what earlier iterations of the same sequence left in it.
Iterate ==
    /\ gpc \in {"ready", "done"}
    /\ iterNo < MaxIters
    /\ gpc' = "outer"
    /\ pi' = 1
    /\ glob' = <<>>
    /\ gi' = 0
    /\ out' = <<>>
    /\ globCalls' = <<>>
    /\ yieldFrom' = 0
    /\ stopped' = FALSE
    /\ iterNo' = iterNo + 1
    /\ UNCHANGED <<patterns, fsys, seen>>
    /\ UNCHANGED nonGlobVars

\* Lines 93-97 with `return` in place of `continue` on a pattern error.
GlobPattern_abort ==
    /\ gpc = "outer"
    /\ pi <= Len(patterns)
    /\ LET r == Glob(patterns[pi], fsys)
       IN  /\ globCalls' = Append(globCalls, pi)
           /\ IF r.err
              THEN /\ gpc' = "done"
                   /\ UNCHANGED <<pi, glob, gi>>
              ELSE /\ gpc' = "inner"
                   /\ glob' = r.matches
                   /\ gi' = 1
                   /\ pi' = pi
    /\ UNCHANGED <<patterns, fsys, seen, out, yieldFrom, stopped, iterNo>>
    /\ UNCHANGED nonGlobVars

\* Lines 93-97: filepath.Glob expands the next pattern; on an error the loop
\* continues with the pattern after it.
GlobPattern ==
    /\ gpc = "outer"
    /\ pi <= Len(patterns)
    /\ LET r == Glob(patterns[pi], fsys)
       IN  /\ globCalls' = Append(globCalls, pi)
           /\ IF r.err
              THEN /\ pi' = pi + 1
                   /\ UNCHANGED <<gpc, glob, gi>>
              ELSE /\ gpc' = "inner"
                   /\ glob' = r.matches
                   /\ gi' = 1
                   /\ pi' = pi
    /\ UNCHANGED <<patterns, fsys, seen, out, yieldFrom, stopped, iterNo>>
    /\ UNCHANGED nonGlobVars

\* Line 93: the range over patterns is exhausted; the closure returns.
GlobsExhausted ==
    /\ gpc = "outer"
    /\ pi > Len(patterns)
    /\ gpc' = "done"
    /\ UNCHANGED <<patterns, fsys, seen, pi, glob, gi, out, globCalls, yieldFrom, stopped, iterNo>>
    /\ UNCHANGED nonGlobVars

\* Line 98: the range over glob is exhausted; back to the outer loop.
MatchesExhausted ==
    /\ gpc = "inner"
    /\ gi > Len(glob)
    /\ gpc' = "outer"
    /\ pi' = pi + 1
    /\ UNCHANGED <<patterns, fsys, seen, glob, gi, out, globCalls, yieldFrom, stopped, iterNo>>
    /\ UNCHANGED nonGlobVars

\* Line 99: is the match skipped as already seen?
IsSeen_never(s, match) == FALSE

IsSeen(s, match) == match \in s

\* Lines 99-101: a match already seen is skipped.
SkipSeen ==
    /\ gpc = "inner"
    /\ gi <= Len(glob)
    /\ IsSeen(seen, glob[gi])
    /\ gi' = gi + 1
    /\ UNCHANGED <<patterns, fsys, seen, gpc, pi, glob, out, globCalls, yieldFrom, stopped, iterNo>>
    /\ UNCHANGED nonGlobVars

\* Lines 102-106 with `break` in place of `return` when yield returns false.
YieldMatch_break ==
    /\ gpc = "inner"
    /\ gi <= Len(glob)
    /\ ~IsSeen(seen, glob[gi])
    /\ seen' = seen \cup {glob[gi]}
    /\ out' = Append(out, glob[gi])
    /\ yieldFrom' = pi
    /\ \E more \in BOOLEAN :
          IF more
          THEN /\ gi' = gi + 1
               /\ UNCHANGED <<gpc, pi, stopped>>
          ELSE /\ gpc' = "outer"
               /\ pi' = pi + 1
               /\ stopped' = TRUE
               /\ UNCHANGED gi
    /\ UNCHANGED <<patterns, fsys, glob, globCalls, iterNo>>
    /\ UNCHANGED nonGlobVars

\* Lines 102-106: a new match is recorded and yielded; the consumer answers
\* whether it wants more, and the closure returns when it does not.
YieldMatch ==
    /\ gpc = "inner"
    /\ gi <= Len(glob)
    /\ ~IsSeen(seen, glob[gi])
    /\ seen' = seen \cup {glob[gi]}
    /\ out' = Append(out, glob[gi])
    /\ yieldFrom' = pi
    /\ \E more \in BOOLEAN :
          IF more
          THEN /\ gi' = gi + 1
               /\ UNCHANGED <<gpc, pi, stopped>>
          ELSE /\ gpc' = "done"
               /\ stopped' = TRUE
               /\ UNCHANGED <<pi, gi>>
    /\ UNCHANGED <<patterns, fsys, glob, globCalls, iterNo>>
    /\ UNCHANGED nonGlobVars

GlobNext ==
    \/ Iterate
    \/ GlobPattern
    \/ GlobsExhausted
    \/ MatchesExhausted
    \/ SkipSeen
    \/ YieldMatch

----------------------------------------------------------------------------
(* Regular expressions (package regexp), for searchFile and searchEnv.     *)
(*                                                                         *)
(* A regular expression is a sequence of atoms [c, q]: the literal c once  *)
(* (q = "one") or greedily any number of times (q = "star").  The text is  *)
(* [pre, win]: pre filler bytes "z", which no atom matches, followed by    *)
(* the bytes win.  Offsets count from 0, as in Go.                         *)

\* Bounds of the regular-expression inputs.
MaxAtoms == 2
MaxWin == 3

Filler == "z"

ReChars == {"a", "b"}

Atoms == [c : ReChars, q : {"one", "star"}]

Regexps == SeqsUpTo(Atoms, MaxAtoms) \ {<<>>}

DataLen(d) == d.pre + Len(d.win)

ByteAt(d, i) == IF i < d.pre THEN Filler ELSE d.win[i - d.pre + 1]

\* The text of a plain string s.
Text(s) == [pre |-> 0, win |-> s]

\* The regular expression matches the empty string.
Emptiable(r) == \A k \in 1..Len(r) : r[k].q = "star"

\* Number of consecutive bytes equal to c from offset i on.
RECURSIVE RunLen(_, _, _)
RunLen(c, d, i) ==
    IF i < DataLen(d) /\ ByteAt(d, i) = c THEN 1 + RunLen(c, d, i + 1) ELSE 0

\* The end of the match of atoms k.. that starts at offset i and that the
\* leftmost-first rule prefers (a star takes as much as it can), or -1.
RECURSIVE MatchHere(_, _, _, _)
RECURSIVE TryStar(_, _, _, _, _)
MatchHere(r, k, d, i) ==
    IF k > Len(r) THEN i
    ELSE IF r[k].q = "one"
         THEN IF i < DataLen(d) /\ ByteAt(d, i) = r[k].c
              THEN MatchHere(r, k + 1, d, i + 1)
              ELSE -1
    ELSE TryStar(r, k, d, i, RunLen(r[k].c, d, i))

TryStar(r, k, d, i, j) ==
    IF j < 0 THEN -1
    ELSE LET e == MatchHere(r, k + 1, d, i + j)
         IN  IF e # -1 THEN e ELSE TryStar(r, k, d, i, j - 1)

RECURSIVE FindFrom(_, _, _)
FindFrom(r, d, s) ==
    IF s > DataLen(d) THEN <<>>
    ELSE LET e == MatchHere(r, 1, d, s)
         IN  IF e # -1 THEN <<s, e>> ELSE FindFrom(r, d, s + 1)

\* regexp: doExecute, the leftmost match that starts at pos or later, <<>> if
\* there is none.  No match of an expression that needs a byte starts in the
\* filler, so the scan resumes where the filler ends.
doExecute(r, d, pos) ==
    FindFrom(r, d, IF pos < d.pre /\ ~Emptiable(r) THEN d.pre ELSE pos)

\* regexp: allMatches, the successive non-overlapping matches; an empty match
\* that abuts the preceding match is dropped.  Every byte of the model is a
\* one-byte character, so the scan moves on by one after an empty match.
RECURSIVE allMatches(_, _, _, _)
allMatches(r, d, pos, prevMatchEnd) ==
    IF pos > DataLen(d) THEN <<>>
    ELSE LET m == doExecute(r, d, pos)
         IN  IF m = <<>> THEN <<>>
             ELSE LET empty == m[2] = pos
                      accept == ~(empty /\ m[1] = prevMatchEnd)
                      width == IF pos < DataLen(d) THEN 1 ELSE 0
                      next == IF empty
                              THEN IF width > 0 THEN pos + width ELSE DataLen(d) + 1
                              ELSE m[2]
                  IN  (IF accept THEN <<m>> ELSE <<>>) \o allMatches(r, d, next, m[2])

\* (*Regexp).FindAllIndex(data, -1)
FindAllIndex(r, d) == allMatches(r, d, 0, -1)

\* (*Regexp).FindString(s): the text of the leftmost match, "" if none.
FindString(r, s) ==
    LET m == doExecute(r, Text(s), 0)
    IN  IF m = <<>> THEN <<>> ELSE SubSeq(s, m[1] + 1, m[2])

----------------------------------------------------------------------------
(* searchFile, search.go:35-66.                                            *)

\* const maxFileSize = 1 << 30
maxFileSize == 2^30

FilePath == "path"

\* Lengths of the filler in front of the window: the window lies at the start
\* of the file, or around the first maxFileSize bytes' end.
PreSet == {0, maxFileSize - 2, maxFileSize - 1, maxFileSize, maxFileSize + 1}

Files == [pre : PreSet, win : SeqsUpTo(ReChars, MaxWin)]

\* io.ReadAll without the LimitedReader: the whole file.
LimitRead_unlimited(f, N) == [pre |-> f.pre, win |-> f.win]

\* io.ReadAll(&io.LimitedReader{R: f, N: N}): the first N bytes of the file, or
\* all of it when it is shorter.
LimitRead(f, N) ==
    IF f.pre >= N THEN [pre |-> N, win |-> <<>>]
    ELSE [pre |-> f.pre, win |-> SubSeq(f.win, 1, Min(Len(f.win), N - f.pre))]

\* data[start:end]
Slice(d, start, end) == [i \in 1..(end - start) |-> ByteAt(d, start + i - 1)]

\* A fileSlice that holds data[start:] instead of data[start:end].
fileSlice_toEnd(d, loc) ==
    [path |-> FilePath, data |-> Slice(d, loc[1], DataLen(d)), offset |-> loc[1]]

\* Lines 58-63: the fileSlice of the match at loc = <<start, end>>.
fileSlice(d, loc) ==
    [path |-> FilePath, data |-> Slice(d, loc[1], loc[2]), offset |-> loc[1]]

FileInit ==
    /\ file \in Files
    /\ re \in Regexps
    /\ Emptiable(re) => file.pre = 0
    /\ fpc = "start"
    /\ handle = "none"
    /\ data = Text(<<>>)
    /\ matches = <<>>
    /\ ferr = FALSE

FileIdle ==
    /\ file = [pre |-> 0, win |-> <<>>]
    /\ re = <<>>
    /\ fpc = "start"
    /\ handle = "none"
    /\ data = Text(<<>>)
    /\ matches = <<>>
    /\ ferr = FALSE

\* Line 39: fsys.Open succeeds; line 43 defers f.Close().
Open ==
    /\ fpc = "start"
    /\ fpc' = "opened"
    /\ handle' = "open"
    /\ UNCHANGED <<file, re, data, matches, ferr>>
    /\ UNCHANGED nonFileVars

\* Lines 39-42: fsys.Open fails; the error is returned, there is no handle.
OpenFails ==
    /\ fpc = "start"
    /\ fpc' = "returned"
    /\ ferr' = TRUE
    /\ matches' = <<>>
    /\ UNCHANGED <<file, re, data, handle>>
    /\ UNCHANGED nonFileVars

\* Lines 45-46: io.ReadAll reads through the LimitedReader.
ReadAll ==
    /\ fpc = "opened"
    /\ data' = LimitRead(file, maxFileSize)
    /\ fpc' = "read"
    /\ UNCHANGED <<file, re, handle, matches, ferr>>
    /\ UNCHANGED nonFileVars

\* Lines 46-49 with f.Close() called at the end of the function, not deferred.
ReadFails_noClose ==
    /\ fpc = "opened"
    /\ fpc' = "returned"
    /\ ferr' = TRUE
    /\ matches' = <<>>
    /\ UNCHANGED <<file, re, data, handle>>
    /\ UNCHANGED nonFileVars

\* Lines 46-49: io.ReadAll fails; the error is returned without the bytes read
\* so far, and the deferred f.Close() runs.
ReadFails ==
    /\ fpc = "opened"
    /\ fpc' = "returned"
    /\ ferr' = TRUE
    /\ matches' = <<>>
    /\ handle' = "closed"
    /\ UNCHANGED <<file, re, data>>
    /\ UNCHANGED nonFileVars

\* Lines 51-65: the matches are located and returned (nil when there is none),
\* and the deferred f.Close() runs.
FindAndReturn ==
    /\ fpc = "read"
    /\ LET locs == FindAllIndex(re, data)
       IN  matches' = [i \in 1..Len(locs) |-> fileSlice(data, locs[i])]
    /\ fpc' = "returned"
    /\ handle' = "closed"
    /\ UNCHANGED <<file, re, data, ferr>>
    /\ UNCHANGED nonFileVars

FileNext ==
    \/ Open
    \/ OpenFails
    \/ ReadAll
    \/ ReadFails
    \/ FindAndReturn

----------------------------------------------------------------------------
(* envValues and searchEnv, search.go:68-85.                               *)

\* Bounds of the searchEnv model.
NumCallers == 2
MaxEnv == 2
MaxSetenv == 1
MaxCalls == 3

Callers == 1..NumCallers

EnvEntries == { <<"a", "=", "b">>, <<"k", "=", "a", "=", "b">> }

Environs == SeqsUpTo(EnvEntries, MaxEnv)

EnvRegexps == { <<[c |-> "a", q |-> "one"]>>,
                <<[c |-> "a", q |-> "star"], [c |-> "b", q |-> "one"]>> }

\* strings.Cut(s, "="): index of the first "=", 0 if there is none.
RECURSIVE IndexEq(_, _)
IndexEq(s, i) ==
    IF i > Len(s) THEN 0
    ELSE IF s[i] = "=" THEN i
    ELSE IndexEq(s, i + 1)

\* The second result of strings.Cut(s, "="): what follows the first "=", and
\* "" when s holds no "=".
CutAfter(s) ==
    LET i == IndexEq(s, 1)
    IN  IF i = 0 THEN <<>> ELSE SubSeq(s, i + 1, Len(s))

\* Lines 69-74: the function given to sync.OnceValue, applied to os.Environ().
Values(env) == [i \in 1..Len(env) |-> CutAfter(env[i])]

\* Lines 78-84: the first non-empty match among the values, "" if none.
RECURSIVE FirstMatch(_, _)
FirstMatch(r, values) ==
    IF values = <<>> THEN <<>>
    ELSE LET match == FindString(r, Head(values))
         IN  IF match # <<>> THEN match ELSE FirstMatch(r, Tail(values))

EnvInit ==
    /\ environ \in Environs
    /\ once = "new"
    /\ onceResult = <<>>
    /\ computed = 0
    /\ snapEnv = <<>>
    /\ epc = [p \in Callers |-> "idle"]
    /\ evals = [p \in Callers |-> <<>>]
    /\ eret = [p \in Callers |-> <<>>]
    /\ ere = [p \in Callers |-> <<>>]
    /\ setenvs = 0
    /\ ecalls = 0

EnvIdle ==
    /\ environ = <<>>
    /\ once = "new"
    /\ onceResult = <<>>
    /\ computed = 0
    /\ snapEnv = <<>>
    /\ epc = [p \in Callers |-> "idle"]
    /\ evals = [p \in Callers |-> <<>>]
    /\ eret = [p \in Callers |-> <<>>]
    /\ ere = [p \in Callers |-> <<>>]
    /\ setenvs = 0
    /\ ecalls = 0

\* Lines 77-78: a goroutine calls searchEnv(re), which calls envValues(); the
\* locals of its previous call are gone.
CallSearchEnv(p) ==
    /\ epc[p] \in {"idle", "returned"}
    /\ ecalls < MaxCalls
    /\ \E r \in EnvRegexps : ere' = [ere EXCEPT ![p] = r]
    /\ epc' = [epc EXCEPT ![p] = "calling"]
    /\ ecalls' = ecalls + 1
    /\ evals' = [evals EXCEPT ![p] = <<>>]
    /\ eret' = [eret EXCEPT ![p] = <<>>]
    /\ UNCHANGED <<environ, once, onceResult, computed, snapEnv, setenvs>>
    /\ UNCHANGED nonEnvVars

\* sync.OnceValue: the first caller takes the Once and will run the function;
\* callers that arrive while it runs wait for it (no action of theirs is
\* enabled while once = "running").
OnceBegin(p) ==
    /\ epc[p] = "calling"
    /\ once = "new"
    /\ once' = "running"
    /\ epc' = [epc EXCEPT ![p] = "compute"]
    /\ UNCHANGED <<environ, onceResult, computed, snapEnv, evals, eret, ere, setenvs, ecalls>>
    /\ UNCHANGED nonEnvVars

\* Lines 68-75: the function runs, reads os.Environ() and cuts the values; the
\* OnceValue stores the result and hands it to the caller.
OnceCompute(p) ==
    /\ epc[p] = "compute"
    /\ snapEnv' = environ
    /\ onceResult' = Values(environ)
    /\ computed' = computed + 1
    /\ once' = "done"
    /\ evals' = [evals EXCEPT ![p] = Values(environ)]
    /\ epc' = [epc EXCEPT ![p] = "search"]
    /\ UNCHANGED <<environ, eret, ere, setenvs, ecalls>>
    /\ UNCHANGED nonEnvVars

\* envValues as a plain function: every call reads os.Environ() again.
OnceCached_recompute(p) ==
    /\ epc[p] = "calling"
    /\ once = "done"
    /\ computed' = computed + 1
    /\ evals' = [evals EXCEPT ![p] = Values(environ)]
    /\ epc' = [epc EXCEPT ![p] = "search"]
    /\ UNCHANGED <<environ, once, onceResult, snapEnv, eret, ere, setenvs, ecalls>>
    /\ UNCHANGED nonEnvVars

\* sync.OnceValue: a caller that finds the Once done gets the cached result.
OnceCached(p) ==
    /\ epc[p] = "calling"
    /\ once = "done"
    /\ evals' = [evals EXCEPT ![p] = onceResult]
    /\ epc' = [epc EXCEPT ![p] = "search"]
    /\ UNCHANGED <<environ, once, onceResult, computed, snapEnv, eret, ere, setenvs, ecalls>>
    /\ UNCHANGED nonEnvVars

\* Lines 78-84: the values are searched and searchEnv returns.
SearchValues(p) ==
    /\ epc[p] = "search"
    /\ eret' = [eret EXCEPT ![p] = FirstMatch(ere[p], evals[p])]
    /\ epc' = [epc EXCEPT ![p] = "returned"]
    /\ UNCHANGED <<environ, once, onceResult, computed, snapEnv, evals, ere, setenvs, ecalls>>
    /\ UNCHANGED nonEnvVars

\* Some goroutine changes the live environment (os.Setenv, os.Unsetenv).
Setenv ==
    /\ setenvs < MaxSetenv
    /\ \E e \in Environs \ {environ} : environ' = e
    /\ setenvs' = setenvs + 1
    /\ UNCHANGED <<once, onceResult, computed, snapEnv, epc, evals, eret, ere, ecalls>>
    /\ UNCHANGED nonEnvVars

EnvNext ==
    \/ \E p \in Callers : CallSearchEnv(p)
    \/ \E p \in Callers : OnceBegin(p)
    \/ \E p \in Callers : OnceCompute(p)
    \/ \E p \in Callers : OnceCached(p)
    \/ \E p \in Callers : SearchValues(p)
    \/ Setenv

----------------------------------------------------------------------------
(* globEscape, search.go:112-128.  Strings are sequences of bytes.         *)

\* Bound of the globEscape inputs.
MaxEscLen == 3

\* 'a', '*', '?', '[', '\\', the two bytes of U+00E9, and 0xFF, which occurs
\* in no UTF-8 encoding.
EscBytes == {97, 42, 63, 91, 92, 195, 169, 255}

\* The bytes of `*?\[`.
MetaBytes == {42, 63, 92, 91}

\* unicode/utf8: RuneError, MaxRune.
RuneError == 65533
MaxRune == 1114111

\* strings.ContainsAny(s, `*?\[`): the set is ASCII, the test is per byte.
ContainsAny(s, chars) == \E i \in 1..Len(s) : s[i] \in chars

IsCont(s, i, lo, hi) == i <= Len(s) /\ s[i] >= lo /\ s[i] <= hi

\* utf8.DecodeRuneInString(s[i:]), as `for _, r := range s` uses it: the rune
\* and its width; an invalid or short encoding gives RuneError of width 1.
DecodeRune(s, i) ==
    LET b0 == s[i]
        bad == <<RuneError, 1>>
    IN  IF b0 < 128 THEN <<b0, 1>>
        ELSE IF b0 >= 194 /\ b0 <= 223
             THEN IF IsCont(s, i + 1, 128, 191)
                  THEN <<(b0 % 32) * 64 + (s[i + 1] % 64), 2>>
                  ELSE bad
        ELSE IF b0 >= 224 /\ b0 <= 239
             THEN LET lo == IF b0 = 224 THEN 160 ELSE 128
                      hi == IF b0 = 237 THEN 159 ELSE 191
                  IN  IF IsCont(s, i + 1, lo, hi) /\ IsCont(s, i + 2, 128, 191)
                      THEN <<(b0 % 16) * 4096 + (s[i + 1] % 64) * 64 + (s[i + 2] % 64), 3>>
                      ELSE bad
        ELSE IF b0 >= 240 /\ b0 <= 244
             THEN LET lo == IF b0 = 240 THEN 144 ELSE 128
                      hi == IF b0 = 244 THEN 143 ELSE 191
                  IN  IF /\ IsCont(s, i + 1, lo, hi)
                         /\ IsCont(s, i + 2, 128, 191)
                         /\ IsCont(s, i + 3, 128, 191)
                      THEN <<(b0 % 8) * 262144 + (s[i + 1] % 64) * 4096
                               + (s[i + 2] % 64) * 64 + (s[i + 3] % 64), 4>>
                      ELSE bad
        ELSE bad

\* The three bytes of U+FFFD.
EncodeRuneError == <<239, 191, 189>>

\* utf8.AppendRune(nil, r): the UTF-8 encoding of r.
EncodeRune(r) ==
    IF r <= 127 THEN <<r>>
    ELSE IF r <= 2047 THEN <<192 + (r \div 64), 128 + (r % 64)>>
    ELSE IF r > MaxRune \/ (r >= 55296 /\ r <= 57343) THEN EncodeRuneError
    ELSE IF r <= 65535
         THEN <<224 + (r \div 4096), 128 + ((r \div 64) % 64), 128 + (r % 64)>>
    ELSE <<240 + (r \div 262144), 128 + ((r \div 4096) % 64),
           128 + ((r \div 64) % 64), 128 + (r % 64)>>

\* Lines 119-127: the loop over the runes of s from byte index i on.
RECURSIVE EscapeRunes(_, _)
EscapeRunes(s, i) ==
    IF i > Len(s) THEN <<>>
    ELSE LET d == DecodeRune(s, i)
             r == d[1]
         IN  (IF r \in MetaBytes THEN <<92>> ELSE <<>>)
                 \o EncodeRune(r) \o EscapeRunes(s, i + d[2])

EscInit ==
    /\ escIn \in SeqsUpTo(EscBytes, MaxEscLen)
    /\ escOut = <<>>
    /\ escPc = "start"

EscIdle ==
    /\ escIn = <<>>
    /\ escOut = <<>>
    /\ escPc = "start"

\* Lines 115-117: s holds no metacharacter and is returned as it is.
EscapeFast ==
    /\ escPc = "start"
    /\ ~ContainsAny(escIn, MetaBytes)
    /\ escOut' = escIn
    /\ escPc' = "fast"
    /\ UNCHANGED escIn
    /\ UNCHANGED nonEscVars

\* Lines 119-127: s holds a metacharacter and is rebuilt rune by rune.
EscapeSlow ==
    /\ escPc = "start"
    /\ ContainsAny(escIn, MetaBytes)
    /\ escOut' = EscapeRunes(escIn, 1)
    /\ escPc' = "slow"
    /\ UNCHANGED escIn
    /\ UNCHANGED nonEscVars

EscNext ==
    \/ EscapeFast
    \/ EscapeSlow

----------------------------------------------------------------------------
(* reRemovedRefs, search.go:20-22: e{32}-[^$"'{}/[\] \t\r\n]+              *)

\* Bound of the text after the run of e's.
MaxTail == 3

\* The repetition count of e{32}.
HashLen == 32

\* The class [^$"'{}/[\] \t\r\n] without '/'.
RefExcluded_noSlash == {"$", "\"", "'", "{", "}", "[", "]", " ", "\t", "\r", "\n"}

\* The characters the class [^$"'{}/[\] \t\r\n] excludes.
RefExcluded == {"$", "\"", "'", "{", "}", "/", "[", "]", " ", "\t", "\r", "\n"}

RefChars == {"-", "m", "/", "$", " ", "\f"}

\* Numbers of e's the text starts with.
ERuns == {HashLen - 1, HashLen, HashLen + 1}

Es(n) == [i \in 1..n |-> "e"]

\* Number of characters of the class from index i (from 1) on.
RECURSIVE ClassRun(_, _)
ClassRun(s, i) ==
    IF i <= Len(s) /\ s[i] \notin RefExcluded THEN 1 + ClassRun(s, i + 1) ELSE 0

\* e{32}-[class]+ matches at offset st (from 0).
RefMatchesAt(s, st) ==
    /\ st + HashLen + 2 <= Len(s)
    /\ \A i \in 1..HashLen : s[st + i] = "e"
    /\ s[st + HashLen + 1] = "-"
    /\ ClassRun(s, st + HashLen + 2) >= 1

\* reRemovedRefs.FindIndex(s): <<start, end>> of the leftmost match, the class
\* taking as many characters as it can; <<>> if there is no match.
RECURSIVE RefFindFrom(_, _)
RefFindFrom(s, st) ==
    IF st > Len(s) THEN <<>>
    ELSE IF RefMatchesAt(s, st)
         THEN <<st, st + HashLen + 1 + ClassRun(s, st + HashLen + 2)>>
    ELSE RefFindFrom(s, st + 1)

RefInit ==
    /\ \E n \in ERuns : \E t \in SeqsUpTo(RefChars, MaxTail) : refIn = Es(n) \o t
    /\ refLoc = <<>>
    /\ refPc = "start"

RefIdle ==
    /\ refIn = <<>>
    /\ refLoc = <<>>
    /\ refPc = "start"

\* The pattern is applied to the text.
FindRemovedRef ==
    /\ refPc = "start"
    /\ refLoc' = RefFindFrom(refIn, 0)
    /\ refPc' = "done"
    /\ UNCHANGED refIn
    /\ UNCHANGED nonRefVars

RefNext ==
    \/ FindRemovedRef

----------------------------------------------------------------------------
(* The specifications.                                                     *)

InitGlob == GlobInit /\ FileIdle /\ EnvIdle /\ EscIdle /\ RefIdle

InitFile == GlobIdle /\ FileInit /\ EnvIdle /\ EscIdle /\ RefIdle

InitEnv == GlobIdle /\ FileIdle /\ EnvInit /\ EscIdle /\ RefIdle

InitEscape == GlobIdle /\ FileIdle /\ EnvIdle /\ EscInit /\ RefIdle

InitRefs == GlobIdle /\ FileIdle /\ EnvIdle /\ EscIdle /\ RefInit

SpecGlob == InitGlob /\ [][GlobNext]_vars

SpecFile == InitFile /\ [][FileNext]_vars

SpecEnv == InitEnv /\ [][EnvNext]_vars

SpecEscape == InitEscape /\ [][EscNext]_vars

SpecRefs == InitRefs /\ [][RefNext]_vars

----------------------------------------------------------------------------
(* Properties of searchGlobs.                                              *)

\* s without the later occurrences of its elements.
RECURSIVE FirstOccurrences(_)
FirstOccurrences(s) ==
    IF s = <<>> THEN <<>>
    ELSE LET init == FirstOccurrences(SubSeq(s, 1, Len(s) - 1))
             last == s[Len(s)]
         IN  IF \E i \in 1..Len(init) : init[i] = last THEN init ELSE Append(init, last)

\* The match lists of the patterns ps, concatenated in input order.
MatchLists(ps) == Concat([i \in 1..Len(ps) |-> Glob(ps[i], fsys).matches])

WellFormed(pattern) == ~BadPattern(pattern)

\* The names of the directory that some pattern of ps matches.
MatchedNames(ps) ==
    {n \in fsys : \E i \in 1..Len(ps) :
        /\ WellFormed(ps[i])
        /\ IF hasMeta(ps[i]) THEN Match(ps[i], n) ELSE n = ps[i]}

\* The first iteration of the sequence ran to the end.
FirstIterationComplete == gpc = "done" /\ iterNo = 1 /\ ~stopped

\* C1: a complete iteration of a sequence freshly returned by searchGlobs
\* yields every path that matches at least one pattern exactly once, in the
\* order of first occurrence in the concatenation of the patterns' match lists.
C1_YieldsEachMatchOnceInOrder ==
    FirstIterationComplete =>
        /\ {out[i] : i \in 1..Len(out)} = MatchedNames(patterns)
        /\ \A i, j \in 1..Len(out) : i # j => out[i] # out[j]
        /\ out = FirstOccurrences(MatchLists(patterns))

\* A complete first iteration in which a path matched by two patterns was
\* yielded, and another path after it.
C1_Witness ==
    /\ FirstIterationComplete
    /\ Len(MatchLists(patterns)) > Len(out)
    /\ Len(out) >= 2
    /\ \E i, j \in 1..Len(patterns) :
          /\ i < j
          /\ patterns[i] # patterns[j]
          /\ \E n \in fsys : Match(patterns[i], n) /\ Match(patterns[j], n)

\* C2: once yield has returned false the iteration is over: the last pattern
\* filepath.Glob was called for is the one that produced the last yielded path,
\* and the path the consumer refused is the last one yielded.
C2_StopEndsIteration ==
    stopped =>
        /\ gpc = "done"
        /\ globCalls # <<>>
        /\ globCalls[Len(globCalls)] = yieldFrom
        /\ \A k \in 1..Len(globCalls) : globCalls[k] <= yieldFrom
        /\ out # <<>>
        /\ out[Len(out)] = glob[gi]

\* The consumer stopped while a later pattern still had an unseen match.
C2_Witness ==
    /\ stopped
    /\ gpc = "done"
    /\ \E k \in (yieldFrom + 1)..Len(patterns) :
          \E n \in fsys : n \notin seen /\ WellFormed(patterns[k]) /\ Match(patterns[k], n)

\* C3: a malformed pattern is skipped without ending the iteration: every
\* pattern is expanded, and what is yielded is what the pattern list without
\* its malformed patterns yields.
C3_MalformedSkipped ==
    FirstIterationComplete =>
        /\ globCalls = [k \in 1..Len(patterns) |-> k]
        /\ out = FirstOccurrences(MatchLists(SelectSeq(patterns, WellFormed)))

\* A complete first iteration over a list in which a well-formed pattern after
\* a malformed one contributed a path.
C3_Witness ==
    /\ FirstIterationComplete
    /\ \E i, j \in 1..Len(patterns) :
          /\ i < j
          /\ BadPattern(patterns[i])
          /\ WellFormed(patterns[j])
          /\ \E n \in fsys :
                /\ Match(patterns[j], n)
                /\ \E k \in 1..Len(out) : out[k] = n
                /\ \A h \in 1..(j - 1) : BadPattern(patterns[h]) \/ ~Match(patterns[h], n)

\* C10: every iteration of the returned sequence starts with an empty seen
\* set, so every complete iteration, the first or a later one, yields what a
\* first complete iteration yields.
C10_SeenResetPerIteration ==
    /\ (gpc = "outer" /\ globCalls = <<>>) => seen = {}
    /\ (gpc = "done" /\ ~stopped) => out = FirstOccurrences(MatchLists(patterns))

----------------------------------------------------------------------------
(* Properties of searchFile.                                               *)

\* C4: the returned slices are in strictly increasing offset order and do not
\* overlap.
C4_SlicesOrderedDisjoint ==
    fpc = "returned" =>
        \A i \in 1..(Len(matches) - 1) :
            /\ matches[i].offset < matches[i + 1].offset
            /\ matches[i].offset + Len(matches[i].data) <= matches[i + 1].offset

\* Two non-empty slices were returned, the second starting before the end of
\* the data.
C4_Witness ==
    /\ fpc = "returned"
    /\ Len(matches) >= 2
    /\ matches[1].data # <<>>
    /\ matches[2].offset + Len(matches[2].data) < DataLen(data)

\* C5: no more than the first maxFileSize bytes are read, and every returned
\* slice lies within the bytes read.
C5_WithinCeiling ==
    fpc \in {"read", "returned"} =>
        /\ DataLen(data) <= maxFileSize
        /\ \A i \in 1..Len(matches) :
              /\ matches[i].offset + Len(matches[i].data) <= DataLen(data)
              /\ matches[i].offset + Len(matches[i].data) <= maxFileSize

\* A file larger than the ceiling was searched; it has a match before the
\* ceiling, which was returned, and one beyond it.
C5_Witness ==
    /\ fpc = "returned"
    /\ ~ferr
    /\ DataLen(file) > maxFileSize
    /\ matches # <<>>
    /\ LET all == FindAllIndex(re, file)
       IN  \E i \in 1..Len(all) : all[i][1] >= maxFileSize

\* C6: when searchFile has returned, the handle it opened is closed; when the
\* open failed there is no handle, the error is returned and no slices are.
C6_HandleClosed ==
    fpc = "returned" =>
        /\ handle \in {"none", "closed"}
        /\ handle = "none" => (ferr /\ matches = <<>>)
        /\ ferr => matches = <<>>

\* searchFile returned a read error for a file it had opened.
C6_Witness ==
    /\ fpc = "returned"
    /\ ferr
    /\ handle = "closed"

----------------------------------------------------------------------------
(* Properties of envValues and searchEnv.                                  *)

\* C7: the snapshot is computed at most once; every caller searches the
\* values of the environment as it was when the snapshot was taken, and what
\* searchEnv returns is determined by that snapshot, whatever the live
\* environment has become.
C7_SnapshotOnce ==
    /\ computed <= 1
    /\ computed = 1 <=> once = "done"
    /\ \A p \in Callers :
          /\ epc[p] \in {"search", "returned"} =>
                /\ once = "done"
                /\ evals[p] = Values(snapEnv)
          /\ epc[p] = "returned" => eret[p] = FirstMatch(ere[p], Values(snapEnv))

\* Both callers have searched; the environment was changed after the snapshot,
\* and a caller got a result the live environment would not give.
C7_Witness ==
    /\ \A p \in Callers : epc[p] = "returned"
    /\ ecalls > NumCallers
    /\ setenvs > 0
    /\ environ # snapEnv
    /\ \E p \in Callers : eret[p] # FirstMatch(ere[p], Values(environ))

----------------------------------------------------------------------------
(* Properties of globEscape.                                               *)

\* s with a backslash in front of every metacharacter byte.
RECURSIVE InsertBackslashes(_)
InsertBackslashes(s) ==
    IF s = <<>> THEN <<>>
    ELSE (IF Head(s) \in MetaBytes THEN <<92, Head(s)>> ELSE <<Head(s)>>)
             \o InsertBackslashes(Tail(s))

\* C8: for every byte string s, valid UTF-8 or not, globEscape(s) is s with a
\* backslash before each '*', '?', '\' and '[' and every other byte unchanged;
\* the fast path returns what the slow path would return.
C8_EscapesBytewise ==
    escPc \in {"fast", "slow"} =>
        /\ escOut = InsertBackslashes(escIn)
        /\ escPc = "fast" => escOut = EscapeRunes(escIn, 1)

----------------------------------------------------------------------------
(* Properties of reRemovedRefs.                                            *)

\* The match loc of s is 32 e's, a hyphen and a non-empty run of characters
\* outside D that ends at the end of s or in front of a character of D.
RefShape(s, loc, D) ==
    LET st == loc[1]
        en == loc[2]
    IN  /\ en - st >= HashLen + 2
        /\ en <= Len(s)
        /\ \A i \in 1..HashLen : s[st + i] = "e"
        /\ s[st + HashLen + 1] = "-"
        /\ \A i \in (st + HashLen + 2)..en : s[i] \notin D
        /\ en = Len(s) \/ s[en + 1] \in D

\* s holds 32 e's, a hyphen and a character outside D, in a row.
HasRef(s, D) ==
    \E st \in 0..Len(s) :
        /\ st + HashLen + 2 <= Len(s)
        /\ \A i \in 1..HashLen : s[st + i] = "e"
        /\ s[st + HashLen + 1] = "-"
        /\ s[st + HashLen + 2] \notin D

\* Path separator, whitespace, quotes, braces and brackets.
ClaimedDisallowed == {"/", " ", "\t", "\r", "\n", "\"", "'", "{", "}", "[", "]"}

\* The same and the dollar sign.
AmendedDisallowed == ClaimedDisallowed \cup {"$"}

\* C9 as stated: a match is 32 e's, a hyphen and the longest non-empty run of
\* characters that are no path separator, whitespace, quote, brace or bracket;
\* there is a match exactly when the text holds such a string.
C9_AsStated ==
    refPc = "done" =>
        /\ refLoc # <<>> <=> HasRef(refIn, ClaimedDisallowed)
        /\ refLoc # <<>> => RefShape(refIn, refLoc, ClaimedDisallowed)

\* C9 amended: the run also ends in front of a dollar sign.
C9_Amended ==
    refPc = "done" =>
        /\ refLoc # <<>> <=> HasRef(refIn, AmendedDisallowed)
        /\ refLoc # <<>> => RefShape(refIn, refLoc, AmendedDisallowed)

\* A match whose name segment is ended by a dollar sign.
C9_Witness ==
    /\ refPc = "done"
    /\ refLoc # <<>>
    /\ refLoc[2] < Len(refIn)
    /\ refIn[refLoc[2] + 1] = "$"

====
